---- MODULE Spec2Model ----
(***************************************************************************)
(* A model of the eStatistika API (FastAPI + SQLAlchemy + Ollama client):  *)
(* users and bearer sessions, chats and their messages, statistics         *)
(* requests, and the request handlers that orchestrate them around the     *)
(* inference backend.  A request is a process that moves from one await    *)
(* (database round trip, backend call, yield to the transport) to the      *)
(* next; the database rows are the shared state.                           *)
(*                                                                         *)
(* Text is a sequence of tokens.  A token stands for a literal piece of    *)
(* text of the program or of its inputs; TokLen gives its length in        *)
(* characters and TokHas the substrings the program searches for.          *)
(***************************************************************************)
EXTENDS Integers, Sequences, FiniteSets, TLC

VARIABLES
    now,          \* the wall clock, in hours
    users,        \* table users: sequence of rows, id = position
    sessions,     \* table sessions: set of rows
    sessionSeq,   \* number of session ids (uuid4) drawn so far
    chats,        \* table chats: set of rows
    chatSeq,      \* number of chat ids (uuid4) drawn so far
    createdBy,    \* history: chat id -> the user whose request created it
    messages,     \* table messages: sequence of rows in insertion order
    msgSeq,       \* the messages.id serial
    stats,        \* table statistics_requests: sequence of rows
    req           \* the requests in flight: slot -> request record

vars == <<now, users, sessions, sessionSeq, chats, chatSeq, createdBy,
          messages, msgSeq, stats, req>>

db == <<users, sessions, sessionSeq, chats, chatSeq, createdBy,
        messages, msgSeq, stats>>

----------------------------------------------------------------------------
(* Bounds of the model *)

MaxTime == 25
MaxSessions == 2
MaxChats == 1
MaxMsgs == 2
MaxStats == 1
MaxFrags == 2
MaxUserChats == 2
MaxUsers == 2

Usernames == {"alice", "bob"}
RegisterPasswords == {"secret1"}
LoginPasswords == {"secret1", "letmein"}
Tokens == 1..(MaxSessions + 1)
ChatIds == 1..(MaxChats + 1)

----------------------------------------------------------------------------
(* Text *)

QUERY_MARKER == <<"MARK">>

\* the length in characters of the text a token stands for
TokLen(t) ==
    CASE t = "MARK" -> 15          \* "📋 **Question:**"
      [] t = "Question:" -> 9
      [] t = "Source:" -> 7
      [] t = "source:" -> 7
      [] t = "SOURCE:" -> 7
      [] t = "SP" -> 1             \* " "
      [] t = "NL2" -> 2            \* "\n\n"
      [] t = "RULE" -> 8           \* "\n\n---\n**"
      [] t = "STARS" -> 3          \* "** "
      [] t = "DATEHDR" -> 11       \* "\n**Date:** "
      [] t = "DATE" -> 10          \* "YYYY-MM-DD"
      [] t = "AI Generated" -> 12
      [] t = "What is 2+2?" -> 12
      [] t = "of GDP?" -> 7
      [] t = "4" -> 1
      [] t = "census" -> 6
      [] t = "PARA" -> 240         \* a paragraph without any keyword
      [] t = "APOLOGY" -> 96       \* "I apologize, but I'm unable to generate statistics at this time. Please try again later. Error: "
      [] t = "ERRSTR" -> 30        \* str(e) of the httpx error
      [] t = "UNABLE_DEFAULT" -> 43 \* "Unable to generate statistics at this time."
      [] OTHER -> 1

\* the offset of substring sub inside token t, or -1 when t does not hold it
TokOff(t, sub) ==
    CASE sub = "Question:" ->
             (CASE t = "MARK" -> 4 [] t = "Question:" -> 0 [] OTHER -> -1)
      [] sub = "Source:" -> (IF t = "Source:" THEN 0 ELSE -1)
      [] sub = "source:" -> (IF t = "source:" THEN 0 ELSE -1)
      [] sub = "unable" -> (IF t = "APOLOGY" THEN 21 ELSE -1)
      [] OTHER -> -1

TokHas(t, sub) == TokOff(t, sub) >= 0

\* str.lower() of one token
TokLower(t) == IF t \in {"Source:", "SOURCE:", "source:"} THEN "source:" ELSE t

Lower(text) == [i \in 1..Len(text) |-> TokLower(text[i])]

RECURSIVE TextLen(_)
TextLen(text) == IF text = <<>> THEN 0 ELSE TokLen(Head(text)) + TextLen(Tail(text))

\* the offset of token i of text
Offset(text, i) == TextLen(SubSeq(text, 1, i - 1))

\* sub in text
Contains(text, sub) == \E i \in 1..Len(text) : TokHas(text[i], sub)

\* sub in text[:n]
ContainsWithin(text, sub, n) ==
    \E i \in 1..Len(text) :
        /\ TokHas(text[i], sub)
        /\ Offset(text, i) + TokOff(text[i], sub) + TokLen(sub) <= n

\* text.startswith(query_marker)
StartsWithMarker(text) == Len(text) > 0 /\ text[1] = "MARK"

\* query_marker in text
ContainsMarker(text) == \E i \in 1..Len(text) : text[i] = "MARK"

----------------------------------------------------------------------------
(* Program constants *)

SESSION_HOURS == 24
QUESTION_WINDOW == 100
STREAM_QUESTION_WINDOW == 200
AI_MAX_RETRIES == 3

DEFAULT_SOURCE == <<"AI Generated">>

\* main.py: the routers included in the application
RegisteredRouters == {"auth", "chats", "statistics"}

\* the router module that declares each endpoint
RouterOf(kind) ==
    CASE kind \in {"chat", "chat_stream"} -> "chat"
      [] kind \in {"create_chat", "delete_chat", "get_chat_messages"} -> "chats"
      [] kind = "statistics" -> "statistics"
      [] OTHER -> "auth"

----------------------------------------------------------------------------
(* Credential store and sessions *)

hash_password(p) == <<"bcrypt", p>>

verify_password(p, h) == h = hash_password(p)

UserByName(name) == {i \in 1..Len(users) : users[i].username = name}

\* SessionManager.authenticate_user: the user id, or 0 for None
authenticate_user(name, p) ==
    IF \E i \in UserByName(name) : verify_password(p, users[i].password_hash)
    THEN CHOOSE i \in UserByName(name) : TRUE
    ELSE 0

SessionRows(token) == {s \in sessions : s.id = token}

\* a get_current_user that never compares expires_at with the clock
SessionNeverExpired(s, t) == FALSE

\* the comparison of get_current_user that rejects a session
SessionExpired(s, t) == s.expires_at < t

\* get_current_user: the dependency every authenticated endpoint resolves
\* before its handler runs
get_current_user(token) ==
    IF SessionRows(token) = {}
    THEN [status |-> 401, detail |-> "Invalid token", user |-> 0]
    ELSE LET s == CHOOSE x \in SessionRows(token) : TRUE IN
         IF SessionExpired(s, now)
         THEN [status |-> 401, detail |-> "Token expired", user |-> 0]
         ELSE [status |-> 200, detail |-> "", user |-> s.user_id]

----------------------------------------------------------------------------
(* Chat store *)

HasChat(c) == \E ch \in chats : ch.id = c

\* ChatManager.get_chat, for a chat that exists
get_chat(c) == CHOOSE ch \in chats : ch.id = c

\* a verify_chat_access that forgets to compare the owner
verify_chat_exists(c, u) == HasChat(c)

\* ChatHistoryService.verify_chat_access
verify_chat_access(c, u) == HasChat(c) /\ get_chat(c).user_id = u

\* the results a SELECT ... ORDER BY may give for the rows S, key giving the
\* sort key of each row: every order of the rows in which the key does not
\* decrease; the order of rows that tie on the key is the database's choice
Orderings(S, key) ==
    {s \in [1..Cardinality(S) -> S] :
        \A i, j \in 1..Cardinality(S) :
            i < j => s[i] # s[j] /\ key[s[i]] <= key[s[j]]}

\* the rows of chat c in the order of their commits: what
\* ChatManager.get_chat_messages returns when created_at follows that order
\* and no two rows tie
get_chat_messages(c) == SelectSeq(messages, LAMBDA m : m.chat_id = c)

\* the rows of chat c as a set
MessageRows(c) ==
    {messages[i] : i \in {j \in 1..Len(messages) : messages[j].chat_id = c}}

\* ChatManager.get_chat_messages: order_by(Message.created_at) and no
\* further key
MessageListings(c) ==
    Orderings(MessageRows(c), [m \in MessageRows(c) |-> m.created_at])

\* ChatManager.get_user_chats: order_by(Chat.updated_at.desc()) and no
\* further key
get_user_chats(u) ==
    LET rows == {ch \in chats : ch.user_id = u} IN
    Orderings(rows, [ch \in rows |-> 0 - ch.updated_at])

\* the {role, content} shape of rows
FormatRows(ms) ==
    [i \in 1..Len(ms) |-> [role |-> ms[i].role, content |-> ms[i].content]]

\* ChatHistoryService.format_for_ai, of the rows in the order of their commits
format_for_ai(c) == FormatRows(get_chat_messages(c))

\* get_chat_messages, lines 67-70: the MessageResponse of each row
MessageResponses(ms) ==
    [i \in 1..Len(ms) |-> [role |-> ms[i].role, content |-> ms[i].content,
                            created_at |-> ms[i].created_at]]

\* list_chats, lines 22-25: the ChatSessionResponse of each row
ChatSessionResponses(cs) ==
    [i \in 1..Len(cs) |-> [id |-> cs[i].id, created_at |-> cs[i].created_at,
                            updated_at |-> cs[i].updated_at]]

\* a store that writes the chat's messages back as one value: the row takes
\* the place of the last one written
MessagesAfterWriteBack(c, role, content) ==
    LET row == [id |-> msgSeq + 1, chat_id |-> c, role |-> role,
                content |-> content, created_at |-> now]
    IN  IF messages = <<>> THEN <<row>>
        ELSE [messages EXCEPT ![Len(messages)] = row]

\* ChatManager.add_message: the table messages after the insert
MessagesAfterAdd(c, role, content) ==
    Append(messages, [id |-> msgSeq + 1, chat_id |-> c, role |-> role,
                      content |-> content, created_at |-> now])

\* ChatManager.add_message: the table chats after updated_at is bumped
ChatsAfterAdd(c) ==
    {IF ch.id = c THEN [ch EXCEPT !.updated_at = now] ELSE ch : ch \in chats}

\* ChatManager.create_chat: the table chats after the insert
ChatsAfterCreate(u) ==
    chats \cup {[id |-> chatSeq + 1, user_id |-> u,
                 created_at |-> now, updated_at |-> now]}

\* a delete_chat that leaves the messages
MessagesKept(c) == messages

\* ChatManager.delete_chat: messages first, then the chat, one commit
MessagesAfterDelete(c) == SelectSeq(messages, LAMBDA m : m.chat_id # c)

ChatsAfterDelete(c) == {ch \in chats : ch.id # c}

----------------------------------------------------------------------------
(* Inference client and statistics service *)

MODEL_NAME == "llama3.2"

\* what one HTTP exchange with the backend can end in
BackendOutcomes ==
    {"ok", "connect_error", "timeout", "read_error", "http_status", "bad_body"}

\* an except clause that names httpx.RequestError: the HTTPStatusError of
\* raise_for_status is no RequestError
IsRequestError(outcome) == outcome \in {"connect_error", "timeout", "read_error"}

\* except httpx.HTTPError: ConnectError, TimeoutException, ReadError and
\* HTTPStatusError (raise_for_status) are HTTPErrors; the ValueError of
\* response.json() on a body that is not JSON is not
IsHTTPError(outcome) ==
    outcome \in {"connect_error", "timeout", "read_error", "http_status"}

\* message.content of the JSON bodies a reachable backend answers with;
\* <<>> is a missing or empty content
ModelTexts ==
    { <<"4">>,
      <<"MARK", "SP", "What is 2+2?", "NL2", "4", "NL2", "Source:", "census">>,
      <<>> }

\* the content fragments a streaming backend sends
Fragments == { <<"4">>, <<"MARK">>, <<"source:", "census">>,
               <<"Question:">>, <<"PARA">> }

APOLOGY == <<"APOLOGY", "ERRSTR">>

NoResult == [raised |-> FALSE, response |-> <<>>, source |-> <<>>,
             date |-> <<>>, model |-> ""]

\* lines 32-56 (and 167-191): the system instruction
SYSTEM_PROMPT == <<"SYSTEM_PROMPT">>

\* a prompt that always carries the context note
ContextNoteAlways(chat_history) == <<"CONTEXT_NOTE">>

\* lines 68-70 (and 203-205): the note on the conversation context, added
\* when chat_history is given and not empty
ContextNote(chat_history) ==
    IF chat_history # <<>> THEN <<"CONTEXT_NOTE">> ELSE <<>>

\* lines 72-105 (and 207-240): the user prompt built around the query
UserPrompt(query, chat_history) ==
    <<"PROMPT_HEAD">> \o query \o ContextNote(chat_history)
        \o <<"PROMPT_RULES">>

\* generate_statistics, lines 58-107, and generate_statistics_stream, lines
\* 193-242: the messages sent to the backend (chat_history None is <<>>)
BuildMessages(query, chat_history) ==
    <<[role |-> "system", content |-> SYSTEM_PROMPT]>>
        \o SelectSeq(chat_history, LAMBDA msg : msg.role # "system")
        \o <<[role |-> "user", content |-> UserPrompt(query, chat_history)]>>

\* a service that repeats a failed exchange while the configured count allows
RetryUpToMax(calls) == calls < AI_MAX_RETRIES

\* generate_statistics, lines 138-146, and generate_statistics_stream, lines
\* 268-270: the except clause answers with the apology; neither method has a
\* loop around the exchange and neither reads settings.ai_max_retries
MayRetry(calls) == FALSE

\* StatisticsService.generate_statistics from the HTTP exchange on: the
\* outcome of the POST and the content of the body it returned
generate_statistics(source, outcome, content) ==
    IF outcome = "ok"
    THEN [raised |-> FALSE,
          response |-> IF content = <<>> THEN <<"UNABLE_DEFAULT">> ELSE content,
          source |-> source, date |-> <<"DATE">>, model |-> MODEL_NAME]
    ELSE IF IsHTTPError(outcome)
    THEN [raised |-> FALSE, response |-> APOLOGY, source |-> source,
          date |-> <<"DATE">>, model |-> "error"]
    ELSE [NoResult EXCEPT !.raised = TRUE]

----------------------------------------------------------------------------
(* Post-processing of the chat router *)

QuestionHeader(message) == <<"MARK", "SP">> \o message \o <<"NL2">>

SourceBlock(source, date) ==
    <<"RULE", "Source:", "STARS">> \o source \o <<"DATEHDR">> \o date

\* chat: the marker is prepended unless the text starts with it or holds
\* "Question:" in its first 100 characters
WithQuestion(text, message) ==
    IF ~StartsWithMarker(text)
       /\ ~ContainsWithin(text, "Question:", QUESTION_WINDOW)
    THEN QuestionHeader(message) \o text
    ELSE text

MentionsSource(text) ==
    Contains(text, "Source:") \/ Contains(Lower(text), "source:")

\* chat: the source and date block is appended unless a source is mentioned
WithSource(text, source, date) ==
    IF ~MentionsSource(text) THEN text \o SourceBlock(source, date) ELSE text

\* chat, lines 69-79: formatted_response
FormatResponse(result, message) ==
    WithSource(WithQuestion(result.response, message), result.source, result.date)

\* chat_stream, lines 136-139: the flag after one more chunk is in the buffer
QueryAdded(flag, buffer) ==
    \/ flag
    \/ ContainsMarker(buffer)
    \/ ContainsWithin(buffer, "Question:", STREAM_QUESTION_WINDOW)

\* chat_stream, lines 142-145: the buffer after the loop
StreamWithQuestion(buffer, flag, message) ==
    IF ~flag /\ buffer # <<>> THEN QuestionHeader(message) \o buffer ELSE buffer

\* chat_stream, line 149: whether the source block is added and sent
StreamNeedsSource(buffer) == buffer # <<>> /\ ~MentionsSource(buffer)

----------------------------------------------------------------------------
(* Requests *)

Slots == {"r1", "r2"}

UserTexts == { <<"What is 2+2?">>, <<"source:", "of GDP?">> }

\* the source field of a statistics query: absent, or supplied
Absent == <<"(absent)">>
Sources == { Absent, <<"census">> }

Kinds == {"create_chat", "delete_chat", "get_chat_messages",
          "chat", "chat_stream", "statistics"}

\* a request reaches a handler through the application (main.app) or, for a
\* router the application does not include, through the router itself
Vias(kind) ==
    IF RouterOf(kind) \in RegisteredRouters THEN {"app"} ELSE {"app", "router"}

\* the chat ids a request of a kind can name (0: the endpoint takes none)
ChatArgs(kind) ==
    IF kind \in {"create_chat", "statistics"} THEN {0} ELSE ChatIds

\* the message or query texts a request of a kind can carry
TextArgs(kind, texts) ==
    IF kind \in {"chat", "chat_stream", "statistics"} THEN texts ELSE {<<>>}

\* the source fields a request of a kind can carry
SourceArgs(kind, supplied) == IF kind = "statistics" THEN supplied ELSE {Absent}

IdleReq ==
    [kind |-> "none", via |-> "none", pc |-> "idle", token |-> 0, user |-> 0,
     chat_id |-> 0, message |-> <<>>, source |-> <<>>, history |-> <<>>,
     user_msg |-> 0, calls |-> 0, outcome |-> "none", result |-> NoResult,
     conn |-> "none", gen |-> <<>>, sent |-> <<>>, full_response |-> <<>>,
     query_added |-> FALSE, listing |-> <<>>, row |-> 0, mirror |-> "none",
     source_arg |-> <<>>, username |-> "", password |-> "",
     deleted |-> FALSE, seen |-> 0, role |-> "", stamp |-> 0,
     context |-> <<>>,
     created_at |-> 0,
     status |-> 0, detail |-> "", response |-> <<>>, resp_source |-> <<>>,
     model |-> ""]

Done(rq, status, detail) ==
    [rq EXCEPT !.pc = "done", !.status = status, !.detail = detail]

InFlight(rq) == rq.pc \notin {"idle", "done", "crashed"}

\* the first step of each handler once get_current_user has yielded the user
FirstStep(kind) ==
    CASE kind = "create_chat" -> "create"
      [] kind = "statistics" -> "generate"
      [] OTHER -> "check"

\* a source field without its default
SourceFieldAsGiven(supplied) == supplied

\* StatisticsQueryRequest: the default of the source field
SourceField(supplied) == IF supplied = Absent THEN DEFAULT_SOURCE ELSE supplied

\* A request arrives on a free slot (the response of the slot's last request
\* has been delivered).  The application answers 404 for a path of a router it
\* does not include; otherwise the dependencies are resolved
\* (get_current_user) and the handler starts.
Receive(r, kind, via, token, c, text, supplied) ==
    /\ ~InFlight(req[r])
    /\ via \in Vias(kind)
    /\ kind = "create_chat" => chatSeq < MaxChats
    /\ kind \in {"chat", "chat_stream"} => msgSeq + 2 <= MaxMsgs
    /\ kind = "statistics" =>
           /\ Len(stats) < MaxStats
           /\ chatSeq < MaxChats
           /\ msgSeq + 2 <= MaxMsgs
    /\ LET rq == [IdleReq EXCEPT
                    !.kind = kind, !.via = via, !.token = token,
                    !.chat_id = c, !.message = text,
                    !.source_arg = supplied,
                    !.source =
                        IF kind = "statistics" THEN SourceField(supplied)
                        ELSE <<>>]
           auth == get_current_user(token)
       IN  req' = [req EXCEPT ![r] =
              IF via = "app" /\ RouterOf(kind) \notin RegisteredRouters
              THEN Done(rq, 404, "Not Found")
              ELSE IF auth.status # 200
              THEN Done(rq, auth.status, auth.detail)
              ELSE [rq EXCEPT !.user = auth.user, !.pc = FirstStep(kind)]]
    /\ UNCHANGED <<now, db>>

\* chat, lines 53-54, and chat_stream, lines 112-113: verify_chat_access or
\* 404
CheckAccess(r) ==
    /\ req[r].pc = "check"
    /\ req[r].kind \in {"chat", "chat_stream"}
    /\ req' = [req EXCEPT ![r] =
          IF ~verify_chat_access(req[r].chat_id, req[r].user)
          THEN Done(@, 404, "Chat not found")
          ELSE [@ EXCEPT !.pc = "history"]]
    /\ UNCHANGED <<now, db>>

\* chats.py, lines 47-49 and 62-64: not chat or chat.user_id != current_user.id
ChatOwnedBy(c, u) == HasChat(c) /\ get_chat(c).user_id = u

\* delete_chat and get_chat_messages: the ownership check or 404
CheckOwner(r) ==
    /\ req[r].pc = "check"
    /\ req[r].kind \in {"delete_chat", "get_chat_messages"}
    /\ req' = [req EXCEPT ![r] =
          IF ~ChatOwnedBy(req[r].chat_id, req[r].user)
          THEN Done(@, 404, "Chat not found")
          ELSE [@ EXCEPT !.pc =
                    IF req[r].kind = "delete_chat" THEN "delete" ELSE "list"]]
    /\ UNCHANGED <<now, db>>

\* a handler that generates right after the read of the history
AfterHistoryGenerate(kind) == "generate"

\* chat and chat_stream, lines 59-62: what follows the read of the history
\* is the insert of the user message; generation comes after it
AfterHistory(kind) == "add_user"

\* chat and chat_stream, line 57: history = format_for_ai(chat_id)
LoadHistory(r) ==
    /\ req[r].pc = "history"
    /\ \E ms \in MessageListings(req[r].chat_id) :
          req' = [req EXCEPT ![r] =
             [@ EXCEPT !.history = FormatRows(ms),
                       !.pc = AfterHistory(req[r].kind)]]
    /\ UNCHANGED <<now, db>>

\* a schema whose messages.chat_id is a plain column
ChatIdUnchecked(c) == TRUE

\* models.py, line 70: messages.chat_id is a foreign key to chats.id; the
\* database accepts the INSERT of a message only while the chat's row exists
ChatIdReferences(c) == HasChat(c)

\* chat and chat_stream, line 60: add_message(chat_id, "user", message).
\* messages.chat_id is a foreign key: the insert of a message of a chat that
\* is gone raises IntegrityError, which no handler catches (500).
AddUserMessage(r) ==
    /\ req[r].pc = "add_user"
    /\ IF ChatIdReferences(req[r].chat_id)
       THEN /\ messages' = MessagesAfterAdd(req[r].chat_id, "user", req[r].message)
            /\ chats' = ChatsAfterAdd(req[r].chat_id)
            /\ msgSeq' = msgSeq + 1
            /\ req' = [req EXCEPT ![r] =
                  [@ EXCEPT !.user_msg = msgSeq + 1,
                            !.pc = IF req[r].kind = "chat"
                                   THEN "generate" ELSE "streaming",
                            !.conn = IF req[r].kind = "chat"
                                     THEN "none" ELSE "new",
                            !.status = IF req[r].kind = "chat" THEN 0 ELSE 200]]
       ELSE /\ req' = [req EXCEPT ![r] = Done(@, 500, "Internal Server Error")]
            /\ UNCHANGED <<messages, chats, msgSeq>>
    /\ UNCHANGED <<now, users, sessions, sessionSeq, chatSeq, createdBy, stats>>

\* generate_statistics, lines 112-119: the POST to the backend is sent
CallBackend(r) ==
    /\ req[r].pc = "generate"
    /\ req' = [req EXCEPT ![r] =
          [@ EXCEPT !.calls = @ + 1, !.pc = "generating",
                    !.context = BuildMessages(req[r].message, req[r].history)]]
    /\ UNCHANGED <<now, db>>

\* chat, lines 62-79: generate_statistics returns (or raises) and the
\* response is formatted
ChatGenerated(r, outcome, content) ==
    /\ req[r].pc = "generating"
    /\ req[r].kind = "chat"
    /\ LET result == generate_statistics(DEFAULT_SOURCE, outcome, content) IN
       req' = [req EXCEPT ![r] =
          IF IsHTTPError(outcome) /\ MayRetry(req[r].calls)
          THEN [@ EXCEPT !.outcome = outcome, !.pc = "generate"]
          ELSE IF result.raised
          THEN Done([@ EXCEPT !.outcome = outcome], 500, "Internal Server Error")
          ELSE [@ EXCEPT !.outcome = outcome, !.result = result,
                         !.response = FormatResponse(result, req[r].message),
                         !.pc = "add_asst"]]
    /\ UNCHANGED <<now, db>>

\* a handler that saves the text of the backend as it came
PersistedRaw(rq) == rq.result.response

\* chat, line 82: the text saved as the assistant message
PersistedText(rq) == rq.response

\* chat, lines 81-84: add_message(chat_id, "assistant", formatted_response)
\* and the ChatResponse
AddAssistantMessage(r) ==
    /\ req[r].pc = "add_asst"
    /\ req[r].kind = "chat"
    /\ IF ChatIdReferences(req[r].chat_id)
       THEN /\ messages' = MessagesAfterAdd(req[r].chat_id, "assistant",
                                            PersistedText(req[r]))
            /\ chats' = ChatsAfterAdd(req[r].chat_id)
            /\ msgSeq' = msgSeq + 1
            /\ req' = [req EXCEPT ![r] =
                  Done([@ EXCEPT !.model = req[r].result.model], 200, "")]
       ELSE /\ req' = [req EXCEPT ![r] =
                  Done([@ EXCEPT !.response = <<>>], 500, "Internal Server Error")]
            /\ UNCHANGED <<messages, chats, msgSeq>>
    /\ UNCHANGED <<now, users, sessions, sessionSeq, chatSeq, createdBy, stats>>

----------------------------------------------------------------------------
(* chat_stream: generate_statistics_stream and generate_with_history *)

\* generate_with_history, lines 134-139: one chunk of the stream goes into
\* the buffer and out to the client
Consume(rq, chunk) ==
    [rq EXCEPT !.gen = Append(@, chunk),
               !.full_response = @ \o chunk,
               !.query_added = QueryAdded(@, rq.full_response \o chunk),
               !.sent = Append(@, chunk)]

\* an except clause that yields the apology and goes on with the exchange
OnStreamErrorResume(rq) == Consume(rq, APOLOGY)

\* generate_statistics_stream, lines 268-270: the except clause yields the
\* apology, and the generator returns when it is resumed
OnStreamError(rq) == [Consume(rq, APOLOGY) EXCEPT !.conn = "failed"]

\* the first iteration: client.stream(...) and raise_for_status; an HTTPError
\* is answered by one yield of the apology
StreamOpen(r, outcome) ==
    /\ req[r].pc = "streaming"
    /\ req[r].conn = "new"
    /\ outcome \in BackendOutcomes \ {"bad_body", "read_error"}
    /\ req' = [req EXCEPT ![r] =
          LET rq == [@ EXCEPT !.calls = @ + 1, !.outcome = outcome,
                              !.context = BuildMessages(req[r].message,
                                                        req[r].history)] IN
          IF outcome = "ok" THEN [rq EXCEPT !.conn = "open"]
          ELSE IF IsHTTPError(outcome) /\ MayRetry(rq.calls) THEN rq
          ELSE IF IsHTTPError(outcome)
          THEN OnStreamError(rq)
          ELSE Done(rq, 200, "generator raised")]
    /\ UNCHANGED <<now, db>>

\* a line with content: the fragment is yielded
StreamFragment(r, f) ==
    /\ req[r].pc = "streaming"
    /\ req[r].conn = "open"
    /\ Len(req[r].gen) < MaxFrags
    /\ req' = [req EXCEPT ![r] = Consume(@, f)]
    /\ UNCHANGED <<now, db>>

\* an empty line, a line that is not JSON, or a line without content and
\* without done: nothing is yielded
StreamSkipLine(r) ==
    /\ req[r].pc = "streaming"
    /\ req[r].conn = "open"
    /\ UNCHANGED vars

\* the exchange fails while lines are read
StreamFail(r, outcome) ==
    /\ req[r].pc = "streaming"
    /\ req[r].conn = "open"
    /\ outcome \in {"timeout", "read_error"}
    /\ req' = [req EXCEPT ![r] =
          LET rq == [@ EXCEPT !.outcome = outcome] IN
          IF IsHTTPError(outcome)
          THEN OnStreamError(rq)
          ELSE Done(rq, 200, "generator raised")]
    /\ UNCHANGED <<now, db>>

\* a generator that adds the source block to the buffer and does not yield it
SentWithoutBlock(sent, source_info) == sent

\* generate_with_history, line 154: yield source_info
SentWithBlock(sent, source_info) == Append(sent, source_info)

\* the stream ends (done, end of the connection, or the return after the
\* apology): generate_with_history, lines 141-154
StreamFinish(r) ==
    /\ req[r].pc = "streaming"
    /\ req[r].conn \in {"open", "failed"}
    /\ LET buffer == StreamWithQuestion(req[r].full_response,
                                        req[r].query_added, req[r].message)
           source_info == SourceBlock(DEFAULT_SOURCE, <<"DATE">>)
           rq == [req[r] EXCEPT !.conn = "closed"]
       IN  req' = [req EXCEPT ![r] =
              IF buffer = <<>> THEN Done(rq, 200, "")
              ELSE IF StreamNeedsSource(buffer)
              THEN [rq EXCEPT !.full_response = buffer \o source_info,
                              !.sent = SentWithBlock(@, source_info),
                              !.pc = "stream_persist"]
              ELSE [rq EXCEPT !.full_response = buffer,
                              !.pc = "stream_persist"]]
    /\ UNCHANGED <<now, db>>

\* generate_with_history, lines 157-158: the buffer is saved
StreamPersist(r) ==
    /\ req[r].pc = "stream_persist"
    /\ IF ChatIdReferences(req[r].chat_id)
       THEN /\ messages' = MessagesAfterAdd(req[r].chat_id, "assistant",
                                            req[r].full_response)
            /\ chats' = ChatsAfterAdd(req[r].chat_id)
            /\ msgSeq' = msgSeq + 1
            /\ req' = [req EXCEPT ![r] = Done(@, 200, "")]
       ELSE /\ req' = [req EXCEPT ![r] = Done(@, 200, "stream aborted")]
            /\ UNCHANGED <<messages, chats, msgSeq>>
    /\ UNCHANGED <<now, users, sessions, sessionSeq, chatSeq, createdBy, stats>>

\* a generator that is driven to its end after the client has gone: the
\* fragments still to come are dropped and the buffer is saved
OnDisconnectDrain(rq) ==
    [rq EXCEPT !.conn = "gone", !.pc = "stream_persist"]

\* chat_stream, lines 160-163, and generate_with_history, lines 134-139: the
\* StreamingResponse that iterates the generator is cancelled when the
\* client disconnects.  The generator is suspended at a yield or at the read
\* of the next line and is not resumed: it has no try/finally, so what
\* follows the loop (lines 141-158) is not run and the buffer is dropped with
\* the generator.
OnDisconnect(rq) ==
    [rq EXCEPT !.conn = "gone", !.pc = "crashed", !.detail = "disconnected"]

\* the client disconnects while the fragments are streamed
ClientDisconnect(r) ==
    /\ req[r].kind = "chat_stream"
    /\ req[r].pc = "streaming"
    /\ req' = [req EXCEPT ![r] = OnDisconnect(@)]
    /\ UNCHANGED <<now, db>>

----------------------------------------------------------------------------
(* chats router *)

\* create_chat: ChatManager.create_chat and the 201
CreateChat(r) ==
    /\ req[r].pc = "create"
    /\ chats' = ChatsAfterCreate(req[r].user)
    /\ chatSeq' = chatSeq + 1
    /\ createdBy' = createdBy @@ ((chatSeq + 1) :> req[r].user)
    /\ req' = [req EXCEPT ![r] = Done([@ EXCEPT !.chat_id = chatSeq + 1], 201, "")]
    /\ UNCHANGED <<now, users, sessions, sessionSeq, messages, msgSeq, stats>>

\* the messages of chat c committed after the message with serial n
MessagesSince(c, n) == {i \in 1..Len(messages) :
                          messages[i].chat_id = c /\ messages[i].id > n}

\* ChatManager.delete_chat, lines 33-36: get_chat, then the DELETE of the
\* chat's messages, executed in the request's transaction (its effect is not
\* visible to other requests before the commit).  A chat that is gone: False,
\* and the router answers 204 all the same.
DeleteMessages(r) ==
    /\ req[r].pc = "delete"
    /\ req' = [req EXCEPT ![r] =
          IF HasChat(req[r].chat_id)
          THEN [@ EXCEPT !.seen = msgSeq, !.pc = "delete_commit"]
          ELSE Done(@, 204, "")]
    /\ UNCHANGED <<now, db>>

\* ChatManager.delete_chat, lines 37-40: the DELETE of the chat and the
\* commit, and the 204.  A message of the chat committed by another request
\* since the DELETE of the messages is still there: the foreign key refuses
\* the DELETE of the chat (IntegrityError, 500) and the transaction is rolled
\* back.
DeleteChat(r) ==
    /\ req[r].pc = "delete_commit"
    /\ IF MessagesSince(req[r].chat_id, req[r].seen) # {}
       THEN /\ req' = [req EXCEPT ![r] = Done(@, 500, "Internal Server Error")]
            /\ UNCHANGED <<messages, chats>>
       ELSE /\ messages' = MessagesAfterDelete(req[r].chat_id)
            /\ chats' = ChatsAfterDelete(req[r].chat_id)
            /\ req' = [req EXCEPT ![r] = Done(@, 204, "")]
    /\ UNCHANGED <<now, users, sessions, sessionSeq, chatSeq, createdBy,
                   msgSeq, stats>>

\* get_chat_messages: the messages of the chat
ListMessages(r) ==
    /\ req[r].pc = "list"
    /\ \E ms \in MessageListings(req[r].chat_id) :
          req' = [req EXCEPT ![r] =
             Done([@ EXCEPT !.listing = MessageResponses(ms)], 200, "")]
    /\ UNCHANGED <<now, db>>

\* list_chats: get_user_chats(current_user.id) and the responses
ListChats(r) ==
    /\ req[r].pc = "list_chats"
    /\ \E cs \in get_user_chats(req[r].user) :
          req' = [req EXCEPT ![r] =
             Done([@ EXCEPT !.listing = ChatSessionResponses(cs)], 200, "")]
    /\ UNCHANGED <<now, db>>

----------------------------------------------------------------------------
(* ChatManager, method by method *)

Methods == {"create_chat", "add_message", "get_chat_messages", "get_user_chats"}

\* the roles and contents add_message is called with
Turns == { <<"user", <<"What is 2+2?">> >>, <<"assistant", <<"4">> >> }

\* the first step of each method
MethodStep(method) ==
    CASE method = "create_chat" -> "create"
      [] method = "add_message" -> "insert"
      [] method = "get_chat_messages" -> "list"
      [] method = "get_user_chats" -> "list_chats"

\* A handler, past its checks, calls a method of ChatManager on its
\* connection: the method for user u, chat c and a turn, taken by itself.
Call(r, method, u, c, turn) ==
    /\ ~InFlight(req[r])
    /\ u \in 1..Len(users)
    /\ method = "create_chat" => chatSeq < MaxUserChats
    /\ method = "add_message" => msgSeq < MaxMsgs
    /\ req' = [req EXCEPT ![r] =
          [IdleReq EXCEPT !.kind = method, !.via = "manager", !.user = u,
                          !.chat_id = c, !.role = turn[1], !.message = turn[2],
                          !.pc = MethodStep(method)]]
    /\ UNCHANGED <<now, db>>

\* ChatManager.add_message, lines 44-49: Message(...), db.add, and get_chat,
\* whose SELECT flushes the INSERT first: the row takes its id from the serial
\* and created_at from the server default, and stays invisible to other
\* connections until the commit (a chat that is gone: IntegrityError).  Then
\* the clock is read for chat.updated_at.
AddMessageBegin(r) ==
    /\ req[r].pc = "insert"
    /\ IF ChatIdReferences(req[r].chat_id)
       THEN /\ req' = [req EXCEPT ![r] =
                  [@ EXCEPT !.row = msgSeq + 1, !.created_at = now,
                            !.stamp = now, !.pc = "commit"]]
            /\ msgSeq' = msgSeq + 1
       ELSE /\ req' = [req EXCEPT ![r] = Done(@, 500, "Internal Server Error")]
            /\ UNCHANGED msgSeq
    /\ UNCHANGED <<now, users, sessions, sessionSeq, chats, chatSeq, createdBy,
                   messages, stats>>

\* ChatManager.add_message, lines 51-53: the commit writes the message and
\* the UPDATE of chats.updated_at with the value read before it
AddMessageCommit(r) ==
    /\ req[r].pc = "commit"
    /\ IF HasChat(req[r].chat_id)
       THEN /\ messages' = Append(messages,
                   [id |-> req[r].row, chat_id |-> req[r].chat_id,
                    role |-> req[r].role, content |-> req[r].message,
                    created_at |-> req[r].created_at])
            /\ chats' = {IF ch.id = req[r].chat_id
                         THEN [ch EXCEPT !.updated_at = req[r].stamp]
                         ELSE ch : ch \in chats}
            /\ req' = [req EXCEPT ![r] = Done(@, 200, "")]
       ELSE /\ req' = [req EXCEPT ![r] = Done(@, 500, "Internal Server Error")]
            /\ UNCHANGED <<messages, chats>>
    /\ UNCHANGED <<now, users, sessions, sessionSeq, chatSeq, createdBy,
                   msgSeq, stats>>

----------------------------------------------------------------------------
(* statistics router: create_statistics_request *)

\* the StatisticsResponse built from the persisted row (lines 69-75)
StatisticsResponse(rq, row) ==
    Done([rq EXCEPT !.response = row.response, !.resp_source = row.source],
         201, "")

\* a companion chat whose exception reaches the outer except
OnCompanionFailureRaise(rq, row) ==
    Done([rq EXCEPT !.mirror = "failed"], 500, "Error generating statistics")

\* lines 64-75: the inner except swallows what the companion chat raised,
\* and the StatisticsResponse is returned
OnCompanionFailure(rq, row) ==
    StatisticsResponse([rq EXCEPT !.mirror = "failed"], row)

\* lines 33-35: generate_statistics(query, source) returns or raises; the
\* outer except turns whatever is raised into a 500
StatsGenerated(r, outcome, content) ==
    /\ req[r].pc = "generating"
    /\ req[r].kind = "statistics"
    /\ LET result == generate_statistics(req[r].source, outcome, content) IN
       req' = [req EXCEPT ![r] =
          IF IsHTTPError(outcome) /\ MayRetry(req[r].calls)
          THEN [@ EXCEPT !.outcome = outcome, !.pc = "generate"]
          ELSE IF result.raised
          THEN Done([@ EXCEPT !.outcome = outcome], 500,
                    "Error generating statistics")
          ELSE [@ EXCEPT !.outcome = outcome, !.result = result,
                         !.pc = "persist"]]
    /\ UNCHANGED <<now, db>>

\* lines 38-44: StatisticsManager.create_statistics_request; a write that
\* fails (ok = FALSE) raises into the outer except
PersistStats(r, ok) ==
    /\ req[r].pc = "persist"
    /\ IF ok
       THEN /\ stats' = Append(stats,
                   [id |-> Len(stats) + 1, user_id |-> req[r].user,
                    request_info |-> req[r].message,
                    response |-> req[r].result.response,
                    source |-> req[r].result.source, created_at |-> now])
            /\ req' = [req EXCEPT ![r] =
                  [@ EXCEPT !.row = Len(stats) + 1, !.pc = "comp_create"]]
       ELSE /\ req' = [req EXCEPT ![r] =
                  Done(@, 500, "Error generating statistics")]
            /\ UNCHANGED stats
    /\ UNCHANGED <<now, users, sessions, sessionSeq, chats, chatSeq, createdBy,
                   messages, msgSeq>>

\* lines 48-49: the companion chat is created; a failure is caught by the
\* inner except and the response is built
CompanionCreate(r, ok) ==
    /\ req[r].pc = "comp_create"
    /\ IF ok
       THEN /\ chats' = ChatsAfterCreate(req[r].user)
            /\ chatSeq' = chatSeq + 1
            /\ createdBy' = createdBy @@ ((chatSeq + 1) :> req[r].user)
            /\ req' = [req EXCEPT ![r] =
                  [@ EXCEPT !.chat_id = chatSeq + 1, !.pc = "comp_user"]]
       ELSE /\ req' = [req EXCEPT ![r] = OnCompanionFailure(@, stats[req[r].row])]
            /\ UNCHANGED <<chats, chatSeq, createdBy>>
    /\ UNCHANGED <<now, users, sessions, sessionSeq, messages, msgSeq, stats>>

\* lines 52-56: the query is appended as the user message
CompanionUser(r, ok) ==
    /\ req[r].pc = "comp_user"
    /\ IF ok /\ HasChat(req[r].chat_id)
       THEN /\ messages' = MessagesAfterAdd(req[r].chat_id, "user", req[r].message)
            /\ chats' = ChatsAfterAdd(req[r].chat_id)
            /\ msgSeq' = msgSeq + 1
            /\ req' = [req EXCEPT ![r] = [@ EXCEPT !.pc = "comp_asst"]]
       ELSE /\ req' = [req EXCEPT ![r] = OnCompanionFailure(@, stats[req[r].row])]
            /\ UNCHANGED <<messages, chats, msgSeq>>
    /\ UNCHANGED <<now, users, sessions, sessionSeq, chatSeq, createdBy, stats>>

\* lines 59-63: the response is appended as the assistant message, and the
\* StatisticsResponse is returned
CompanionAssistant(r, ok) ==
    /\ req[r].pc = "comp_asst"
    /\ IF ok /\ HasChat(req[r].chat_id)
       THEN /\ messages' = MessagesAfterAdd(req[r].chat_id, "assistant",
                                            req[r].result.response)
            /\ chats' = ChatsAfterAdd(req[r].chat_id)
            /\ msgSeq' = msgSeq + 1
            /\ req' = [req EXCEPT ![r] =
                  StatisticsResponse([@ EXCEPT !.mirror = "complete"],
                                     stats[req[r].row])]
       ELSE /\ req' = [req EXCEPT ![r] = OnCompanionFailure(@, stats[req[r].row])]
            /\ UNCHANGED <<messages, chats, msgSeq>>
    /\ UNCHANGED <<now, users, sessions, sessionSeq, chatSeq, createdBy, stats>>

----------------------------------------------------------------------------
(* auth router, the clock, and the life of a request *)

\* register: SessionManager.create_user; the unique constraint on username
\* refuses a second row (IntegrityError, answered 400)
Register(name, p) ==
    /\ UserByName(name) = {}
    /\ users' = Append(users, [id |-> Len(users) + 1, username |-> name,
                               password_hash |-> hash_password(p)])
    /\ UNCHANGED <<now, sessions, sessionSeq, chats, chatSeq, createdBy,
                   messages, msgSeq, stats, req>>

\* a users table without its unique index
NoUniqueIndex(name) == FALSE

\* models.py, line 16: username is unique; the INSERT of a row whose username
\* is in the table raises IntegrityError
UsernameTaken(name) == UserByName(name) # {}

\* POST /auth/register with a RegisterRequest
ReceiveRegister(r, name, p) ==
    /\ ~InFlight(req[r])
    /\ Len(users) < MaxUsers
    /\ req' = [req EXCEPT ![r] =
          [IdleReq EXCEPT !.kind = "register", !.via = "app",
                          !.username = name, !.password = p,
                          !.pc = "create_user"]]
    /\ UNCHANGED <<now, db>>

\* register, lines 21-26: create_user (add, commit, refresh) and the 201, or
\* the IntegrityError of the commit answered 400
CreateUser(r) ==
    /\ req[r].pc = "create_user"
    /\ IF UsernameTaken(req[r].username)
       THEN /\ req' = [req EXCEPT ![r] = Done(@, 400, "Username already exists")]
            /\ UNCHANGED users
       ELSE /\ users' = Append(users,
                   [id |-> Len(users) + 1, username |-> req[r].username,
                    password_hash |-> hash_password(req[r].password)])
            /\ req' = [req EXCEPT ![r] =
                  Done([@ EXCEPT !.user = Len(users) + 1], 201, "")]
    /\ UNCHANGED <<now, sessions, sessionSeq, chats, chatSeq, createdBy,
                   messages, msgSeq, stats>>

\* login: authenticate_user, then SessionManager.create_session
Login(name, p) ==
    /\ sessionSeq < MaxSessions
    /\ authenticate_user(name, p) # 0
    /\ sessions' = sessions \cup
           {[id |-> sessionSeq + 1, user_id |-> authenticate_user(name, p),
             expires_at |-> now + SESSION_HOURS]}
    /\ sessionSeq' = sessionSeq + 1
    /\ UNCHANGED <<now, users, chats, chatSeq, createdBy, messages, msgSeq,
                   stats, req>>

\* a delete_session that executes no delete
SessionsKept(token) == sessions

\* a delete_session that deletes every session of the session's user
SessionsAfterDeleteOfUser(token) ==
    {s \in sessions : \A x \in SessionRows(token) : s.user_id # x.user_id}

\* SessionManager.delete_session, line 49: the table sessions after the delete
SessionsAfterDelete(token) == {s \in sessions : s.id # token}

\* logout: the token is read from the Authorization header (HTTPBearer); the
\* endpoint does not depend on get_current_user
ReceiveLogout(r, token) ==
    /\ ~InFlight(req[r])
    /\ req' = [req EXCEPT ![r] =
          [IdleReq EXCEPT !.kind = "logout", !.via = "app", !.token = token,
                          !.pc = "get_session"]]
    /\ UNCHANGED <<now, db>>

\* delete_session, lines 47-48 and 52: get_session; an absent session is
\* answered False, and logout (lines 55-58) says so with a 200
GetSession(r) ==
    /\ req[r].pc = "get_session"
    /\ req' = [req EXCEPT ![r] =
          IF SessionRows(req[r].token) # {}
          THEN [@ EXCEPT !.pc = "delete_session"]
          ELSE Done([@ EXCEPT !.deleted = FALSE], 200,
                    "Logged out (session was already expired or not found)")]
    /\ UNCHANGED <<now, db>>

\* delete_session, lines 49-51: the delete and its commit, True; logout,
\* line 59
DeleteSession(r) ==
    /\ req[r].pc = "delete_session"
    /\ sessions' = SessionsAfterDelete(req[r].token)
    /\ req' = [req EXCEPT ![r] =
          Done([@ EXCEPT !.deleted = TRUE], 200, "Logged out successfully")]
    /\ UNCHANGED <<now, users, sessionSeq, chats, chatSeq, createdBy,
                   messages, msgSeq, stats>>

\* d hours pass
Tick(d) ==
    /\ now + d <= MaxTime
    /\ now' = now + d
    /\ UNCHANGED <<db, req>>

\* the server process dies, or the request's task is cancelled, at an await
Crash(r) ==
    /\ InFlight(req[r])
    /\ req' = [req EXCEPT ![r] = [@ EXCEPT !.pc = "crashed", !.detail = req[r].pc]]
    /\ UNCHANGED <<now, db>>

----------------------------------------------------------------------------
(* The specifications *)

Init ==
    /\ now = 0
    /\ users = <<>>
    /\ sessions = {}
    /\ sessionSeq = 0
    /\ chats = {}
    /\ chatSeq = 0
    /\ createdBy = <<>>
    /\ messages = <<>>
    /\ msgSeq = 0
    /\ stats = <<>>
    /\ req = [r \in Slots |-> IdleReq]

\* the steps of the handlers between two awaits, for the backend behaviours
\* outcomes, contents and frags
HandlerStep(r, outcomes, contents, frags) ==
    \/ CheckAccess(r)
    \/ CheckOwner(r)
    \/ LoadHistory(r)
    \/ AddUserMessage(r)
    \/ CallBackend(r)
    \/ \E outcome \in outcomes, content \in contents :
          ChatGenerated(r, outcome, content)
    \/ AddAssistantMessage(r)
    \/ \E outcome \in outcomes : StreamOpen(r, outcome)
    \/ \E f \in frags : StreamFragment(r, f)
    \/ StreamSkipLine(r)
    \/ \E outcome \in outcomes : StreamFail(r, outcome)
    \/ StreamFinish(r)
    \/ StreamPersist(r)
    \/ CreateChat(r)
    \/ DeleteMessages(r)
    \/ DeleteChat(r)
    \/ ListMessages(r)
    \/ Crash(r)

\* the steps of create_statistics_request
StatsStep(r, outcomes, contents) ==
    \/ CallBackend(r)
    \/ \E outcome \in outcomes, content \in contents :
          StatsGenerated(r, outcome, content)
    \/ \E ok \in BOOLEAN : PersistStats(r, ok)
    \/ \E ok \in BOOLEAN : CompanionCreate(r, ok)
    \/ \E ok \in BOOLEAN : CompanionUser(r, ok)
    \/ \E ok \in BOOLEAN : CompanionAssistant(r, ok)

(* The chat orchestrator: one user's chats, every behaviour of the backend *)

Next ==
    \/ \E p \in RegisterPasswords : Register("alice", p)
    \/ \E p \in RegisterPasswords : Login("alice", p)
    \/ \E kind \in Kinds \ {"statistics"} :
          \E via \in Vias(kind), c \in ChatArgs(kind),
             text \in TextArgs(kind, UserTexts) :
             Receive("r1", kind, via, 1, c, text, Absent)
    \/ HandlerStep("r1", BackendOutcomes, ModelTexts, Fragments)

Spec == Init /\ [][Next]_vars

(* Access: two users, their sessions and the clock, every endpoint, a
   backend that answers and writes that succeed *)

AccessStep(r) ==
    \/ CheckAccess(r)
    \/ CheckOwner(r)
    \/ LoadHistory(r)
    \/ AddUserMessage(r)
    \/ CallBackend(r)
    \/ ChatGenerated(r, "ok", <<"4">>)
    \/ AddAssistantMessage(r)
    \/ StreamOpen(r, "ok")
    \/ StreamFragment(r, <<"4">>)
    \/ StreamFinish(r)
    \/ StreamPersist(r)
    \/ CreateChat(r)
    \/ DeleteMessages(r)
    \/ DeleteChat(r)
    \/ ListMessages(r)
    \/ StatsGenerated(r, "ok", <<"4">>)
    \/ PersistStats(r, TRUE)
    \/ CompanionCreate(r, TRUE)
    \/ CompanionUser(r, TRUE)
    \/ CompanionAssistant(r, TRUE)

NextAccess ==
    \/ \E name \in Usernames, p \in RegisterPasswords : Register(name, p)
    \/ \E name \in Usernames, p \in LoginPasswords : Login(name, p)
    \/ Tick(SESSION_HOURS + 1)
    \/ \E kind \in Kinds, token \in Tokens :
          \E via \in Vias(kind), c \in ChatArgs(kind),
             text \in TextArgs(kind, {<<"What is 2+2?">>}) :
             Receive("r1", kind, via, token, c, text, Absent)
    \/ AccessStep("r1")

SpecAccess == Init /\ [][NextAccess]_vars

(* Statistics: create_statistics_request with failing writes *)

NextStats ==
    \/ \E p \in RegisterPasswords : Register("alice", p)
    \/ \E p \in RegisterPasswords : Login("alice", p)
    \/ \E kind \in {"statistics", "get_chat_messages"} :
          \E c \in ChatArgs(kind), text \in TextArgs(kind, UserTexts),
             supplied \in SourceArgs(kind, Sources) :
             Receive("r1", kind, "app", 1, c, text, supplied)
    \/ CheckOwner("r1")
    \/ ListMessages("r1")
    \/ StatsStep("r1", BackendOutcomes, ModelTexts)

SpecStats == Init /\ [][NextStats]_vars

(* Expiry: one user's sessions and the hours around their expiry *)

NextExpiry ==
    \/ \E p \in RegisterPasswords : Register("alice", p)
    \/ \E p \in LoginPasswords : Login("alice", p)
    \/ \E d \in {SESSION_HOURS \div 2, SESSION_HOURS \div 2 + 1} : Tick(d)
    \/ \E token \in Tokens :
          Receive("r1", "create_chat", "app", token, 0, <<>>, Absent)
    \/ CreateChat("r1")

SpecExpiry == Init /\ [][NextExpiry]_vars

(* Chats: one user's chat, created, written to, read and deleted on two
   connections, a backend that answers *)

ChatsStep(r) ==
    \/ CheckAccess(r)
    \/ CheckOwner(r)
    \/ LoadHistory(r)
    \/ AddUserMessage(r)
    \/ CallBackend(r)
    \/ ChatGenerated(r, "ok", <<"4">>)
    \/ AddAssistantMessage(r)
    \/ CreateChat(r)
    \/ DeleteMessages(r)
    \/ DeleteChat(r)
    \/ ListMessages(r)

NextChats ==
    \/ \E p \in RegisterPasswords : Register("alice", p)
    \/ \E p \in RegisterPasswords : Login("alice", p)
    \/ \E r \in Slots :
          \E kind \in {"create_chat", "delete_chat", "get_chat_messages"} :
             \E c \in ChatArgs(kind) :
                Receive(r, kind, "app", 1, c, <<>>, Absent)
    \/ \E r \in Slots, c \in ChatIds :
          Receive(r, "chat", "router", 1, c, <<"What is 2+2?">>, Absent)
    \/ \E r \in Slots : ChatsStep(r)

SpecChats == Init /\ [][NextChats]_vars

(* Deletion: the chat is deleted on one connection while a chat request,
   streaming or not, is under way on the other *)

DeletionStep(r) ==
    \/ CheckAccess(r)
    \/ CheckOwner(r)
    \/ LoadHistory(r)
    \/ AddUserMessage(r)
    \/ CallBackend(r)
    \/ ChatGenerated(r, "ok", <<"4">>)
    \/ AddAssistantMessage(r)
    \/ CreateChat(r)
    \/ DeleteMessages(r)
    \/ DeleteChat(r)
    \/ StreamOpen(r, "ok")
    \/ StreamFragment(r, <<"4">>)
    \/ StreamFinish(r)
    \/ StreamPersist(r)

NextDeletion ==
    \/ \E p \in RegisterPasswords : Register("alice", p)
    \/ \E p \in RegisterPasswords : Login("alice", p)
    \/ \E r \in Slots :
          \E kind \in {"create_chat", "delete_chat"} :
             \E c \in ChatArgs(kind) :
                Receive(r, kind, "app", 1, c, <<>>, Absent)
    \/ \E r \in Slots, kind \in {"chat", "chat_stream"} :
          Receive(r, kind, "router", 1, 1, <<"What is 2+2?">>, Absent)
    \/ \E r \in Slots : DeletionStep(r)

SpecDeletion == Init /\ [][NextDeletion]_vars

(* The chat store: ChatManager's methods called on two connections while
   the clock runs *)

NextStore ==
    \/ \E p \in RegisterPasswords : Register("alice", p)
    \/ Tick(SESSION_HOURS)
    \/ \E r \in Slots, method \in Methods \ {"add_message"} :
          \E c \in (IF method = "get_chat_messages" THEN ChatIds ELSE {0}) :
             Call(r, method, 1, c, <<"", <<>> >>)
    \/ \E r \in Slots, c \in ChatIds, turn \in Turns :
          Call(r, "add_message", 1, c, turn)
    \/ \E r \in Slots : CreateChat(r)
    \/ \E r \in Slots : AddMessageBegin(r)
    \/ \E r \in Slots : AddMessageCommit(r)
    \/ \E r \in Slots : ListMessages(r)
    \/ \E r \in Slots : ListChats(r)

SpecStore == Init /\ [][NextStore]_vars

(* Registration: two connections register users, who log in *)

NextRegister ==
    \/ \E r \in Slots, name \in Usernames, p \in LoginPasswords :
          ReceiveRegister(r, name, p)
    \/ \E r \in Slots : CreateUser(r)
    \/ \E name \in Usernames, p \in LoginPasswords : Login(name, p)

SpecRegister == Init /\ [][NextRegister]_vars

(* The backend: every request that generates, every behaviour of the
   backend, writes that succeed *)

BackendStep(r) ==
    \/ CheckAccess(r)
    \/ LoadHistory(r)
    \/ AddUserMessage(r)
    \/ CallBackend(r)
    \/ \E outcome \in BackendOutcomes : ChatGenerated(r, outcome, <<"4">>)
    \/ AddAssistantMessage(r)
    \/ \E outcome \in BackendOutcomes : StreamOpen(r, outcome)
    \/ StreamFragment(r, <<"4">>)
    \/ \E outcome \in BackendOutcomes : StreamFail(r, outcome)
    \/ StreamFinish(r)
    \/ StreamPersist(r)
    \/ CreateChat(r)
    \/ \E outcome \in BackendOutcomes : StatsGenerated(r, outcome, <<"4">>)
    \/ PersistStats(r, TRUE)
    \/ CompanionCreate(r, TRUE)
    \/ CompanionUser(r, TRUE)
    \/ CompanionAssistant(r, TRUE)

NextBackend ==
    \/ \E p \in RegisterPasswords : Register("alice", p)
    \/ \E p \in RegisterPasswords : Login("alice", p)
    \/ \E kind \in {"create_chat", "chat", "chat_stream", "statistics"} :
          \E c \in ChatArgs(kind),
             text \in TextArgs(kind, {<<"What is 2+2?">>}) :
             Receive("r1", kind, IF kind \in {"chat", "chat_stream"}
                                THEN "router" ELSE "app",
                     1, c, text, Absent)
    \/ BackendStep("r1")

SpecBackend == Init /\ [][NextBackend]_vars

(* Conversations: chat requests, streaming or not, on two connections, a
   backend that answers, no deletion *)

ConverseStep(r) ==
    \/ CheckAccess(r)
    \/ LoadHistory(r)
    \/ AddUserMessage(r)
    \/ CallBackend(r)
    \/ ChatGenerated(r, "ok", <<"4">>)
    \/ AddAssistantMessage(r)
    \/ StreamOpen(r, "ok")
    \/ StreamFragment(r, <<"4">>)
    \/ StreamFinish(r)
    \/ StreamPersist(r)
    \/ CreateChat(r)

NextConverse ==
    \/ \E p \in RegisterPasswords : Register("alice", p)
    \/ \E p \in RegisterPasswords : Login("alice", p)
    \/ \E r \in Slots : Receive(r, "create_chat", "app", 1, 0, <<>>, Absent)
    \/ \E r \in Slots, kind \in {"chat", "chat_stream"}, text \in UserTexts :
          Receive(r, kind, "router", 1, 1, text, Absent)
    \/ \E r \in Slots : ConverseStep(r)

SpecConverse == Init /\ [][NextConverse]_vars

(* Concurrent chat requests: two non-streaming requests on one chat while
   the clock runs, a backend that answers, no deletion *)

\* the clock has advanced since request r's user message was stamped.
\* created_at is func.now() (models.py, line 73), the start of the
\* transaction that inserts the row: the user row's transaction ends with
\* the commit of add_message (core/chats.py, line 51) and the assistant
\* row's starts after it.  Between the two lie awaited round trips to the
\* database and the exchange with the backend (routers/chat.py, 60-82), and
\* the clock that stamps the rows has microsecond resolution, so the two
\* readings of one request differ.  Rows of different requests may tie.
ClockAdvanced(r) ==
    \A i \in 1..Len(messages) :
        messages[i].id = req[r].user_msg => messages[i].created_at < now

ConcurrentStep(r) ==
    \/ CheckAccess(r)
    \/ LoadHistory(r)
    \/ AddUserMessage(r)
    \/ CallBackend(r)
    \/ ChatGenerated(r, "ok", <<"4">>)
    \/ ClockAdvanced(r) /\ AddAssistantMessage(r)
    \/ CreateChat(r)

NextConcurrent ==
    \/ \E p \in RegisterPasswords : Register("alice", p)
    \/ \E p \in RegisterPasswords : Login("alice", p)
    \/ \E r \in Slots : Receive(r, "create_chat", "app", 1, 0, <<>>, Absent)
    \/ \E r \in Slots, text \in UserTexts :
          Receive(r, "chat", "router", 1, 1, text, Absent)
    \/ \E r \in Slots : ConcurrentStep(r)
    \/ Tick(SESSION_HOURS \div 2)

SpecConcurrent == Init /\ [][NextConcurrent]_vars

(* Disconnection: a streaming chat request whose client may go away while
   the fragments are sent, every behaviour of the backend *)

DisconnectStep(r) ==
    \/ CheckAccess(r)
    \/ LoadHistory(r)
    \/ AddUserMessage(r)
    \/ \E outcome \in BackendOutcomes : StreamOpen(r, outcome)
    \/ \E f \in Fragments : StreamFragment(r, f)
    \/ StreamSkipLine(r)
    \/ \E outcome \in BackendOutcomes : StreamFail(r, outcome)
    \/ StreamFinish(r)
    \/ StreamPersist(r)
    \/ ClientDisconnect(r)
    \/ CreateChat(r)

NextDisconnect ==
    \/ \E p \in RegisterPasswords : Register("alice", p)
    \/ \E p \in RegisterPasswords : Login("alice", p)
    \/ Receive("r1", "create_chat", "app", 1, 0, <<>>, Absent)
    \/ \E text \in UserTexts :
          Receive("r1", "chat_stream", "router", 1, 1, text, Absent)
    \/ DisconnectStep("r1")

SpecDisconnect == Init /\ [][NextDisconnect]_vars

(* Sessions: logins and logouts of two users next to authenticated
   requests, on two connections *)

NextSessions ==
    \/ \E name \in Usernames, p \in RegisterPasswords : Register(name, p)
    \/ \E name \in Usernames, p \in RegisterPasswords : Login(name, p)
    \/ \E r \in Slots, token \in Tokens : ReceiveLogout(r, token)
    \/ \E r \in Slots : GetSession(r)
    \/ \E r \in Slots : DeleteSession(r)
    \/ \E r \in Slots, token \in Tokens :
          Receive(r, "create_chat", "app", token, 0, <<>>, Absent)
    \/ \E r \in Slots : CreateChat(r)

SpecSessions == Init /\ [][NextSessions]_vars

----------------------------------------------------------------------------
(* Properties *)

ChatScoped == {"chat", "chat_stream", "get_chat_messages", "delete_chat"}

\* the outcomes of the exchange that are transport or backend failures:
\* backend unreachable, timeout, broken read, error status
TransportFailures == {"connect_error", "timeout", "read_error", "http_status"}

\* chat c exists and is the chat that user u created
CreatedAndPresent(c, u) ==
    /\ HasChat(c)
    /\ c \in DOMAIN createdBy
    /\ createdBy[c] = u

\* the step of request r that leaves the ownership check with an answer
LeavesCheck(r) ==
    /\ req[r].pc = "check"
    /\ req'[r].pc \notin {"check", "crashed"}

NotFound(rq) ==
    rq.pc = "done" /\ rq.status = 404 /\ rq.detail = "Chat not found"

\* C1: verify_chat_access(c, u), and the check of the chats router, is true
\* iff chat c exists and was created by u; a chat-scoped request (chat,
\* chat_stream, get_chat_messages, delete_chat) of a user who did not create
\* the chat, or for a chat that does not exist, leaves the check answered 404
\* "Chat not found", the same answer in both cases, and none gets past it.
C1_OwnershipCheck ==
    /\ [](\A c \in ChatIds, u \in 1..Len(users) :
            /\ verify_chat_access(c, u) <=> CreatedAndPresent(c, u)
            /\ ChatOwnedBy(c, u) <=> CreatedAndPresent(c, u))
    /\ [](\A r \in Slots :
            (req[r].kind \in ChatScoped /\ req[r].user # 0
               /\ req[r].pc # "check"
               /\ ~(req[r].pc = "crashed" /\ req[r].detail = "check")
               /\ ~(req[r].chat_id \in DOMAIN createdBy
                      /\ createdBy[req[r].chat_id] = req[r].user))
            => NotFound(req[r]))
    /\ [][\A r \in Slots :
            (LeavesCheck(r) /\ ~CreatedAndPresent(req[r].chat_id, req[r].user))
            => NotFound(req'[r])]_vars

\* a user who did not create a chat that exists was answered 404
C1_Witness ==
    \E r \in Slots :
        /\ NotFound(req[r])
        /\ req[r].kind = "chat_stream"
        /\ HasChat(req[r].chat_id)
        /\ req[r].user # 0
        /\ createdBy[req[r].chat_id] # req[r].user

\* the token names no session, or a session whose expires_at is behind the
\* clock
UnknownOrExpired(token) ==
    \A s \in sessions : s.id = token => s.expires_at < now

\* the step of request r that receives a new request
Received(r) == ~InFlight(req[r]) /\ req'[r] # req[r]

\* the step of request r that answers it 401 or 404
Rejected(r) ==
    /\ req'[r] # req[r]
    /\ req'[r].pc = "done"
    /\ req'[r].status \in {401, 404}

\* C2: a request whose token is unknown or expired is answered at once, and
\* so is one that fails the ownership check; the step that rejects a request
\* leaves users, sessions, chats, messages and statistics requests as they
\* were, and the request has made no call to the backend and saved no message.
C2_NoSideEffects ==
    [][\A r \in Slots :
         /\ (Received(r) /\ UnknownOrExpired(req'[r].token)) => Rejected(r)
         /\ (LeavesCheck(r)
               /\ ~CreatedAndPresent(req[r].chat_id, req[r].user)) => Rejected(r)
         /\ Rejected(r) =>
               /\ UNCHANGED db
               /\ req'[r].calls = 0
               /\ req'[r].user_msg = 0]_vars

\* a delete_chat with an expired token was rejected while the chat, its
\* messages and a statistics request were stored
C2_Witness ==
    \E r \in Slots :
        /\ req[r].pc = "done"
        /\ req[r].status = 401
        /\ req[r].detail = "Token expired"
        /\ req[r].kind = "delete_chat"
        /\ HasChat(req[r].chat_id)
        /\ chats # {} /\ messages # <<>> /\ stats # <<>>

\* request r is between the call of the backend and the save of the answer,
\* or died there
Generating(rq) ==
    \/ rq.pc = "generating"
    \/ rq.pc = "streaming" /\ rq.conn \in {"open", "failed"}
    \/ rq.pc = "crashed" /\ rq.detail = "generating"
    \/ rq.pc = "crashed" /\ rq.detail = "streaming" /\ rq.conn \in {"open", "failed"}

\* the last message of chat c is the user message that request rq saved
EndsWithUserTurn(rq) ==
    LET ms == get_chat_messages(rq.chat_id) IN
    /\ ms # <<>>
    /\ ms[Len(ms)].id = rq.user_msg
    /\ ms[Len(ms)].role = "user"
    /\ ms[Len(ms)].content = rq.message

\* C3: in chat and in chat_stream the backend is called only once the user
\* message is in the chat, and while the backend generates, or when the
\* request died during generation, the chat's messages end with that user
\* message.
C3_UserTurnFirst ==
    /\ [](\A r \in Slots :
            (req[r].kind \in {"chat", "chat_stream"} /\ Generating(req[r]))
            => EndsWithUserTurn(req[r]))
    /\ [][\A r \in Slots :
            (req[r].kind \in {"chat", "chat_stream"}
               /\ req'[r].calls > req[r].calls)
            => (req[r].user_msg # 0 /\ EndsWithUserTurn(req[r]))]_vars

\* a chat request died while the backend generated
C3_Witness ==
    \E r \in Slots :
        /\ req[r].kind = "chat"
        /\ req[r].pc = "crashed"
        /\ req[r].detail = "generating"
        /\ req[r].calls = 1
        /\ EndsWithUserTurn(req[r])

\* the apology as the chat handler returns it for a message: the question
\* header, the apology, and the source block unless the text so far holds
\* "source:" in any case
ApologyFor(message) ==
    QuestionHeader(message) \o APOLOGY \o
        (IF Contains(Lower(message), "source:")
         THEN <<>>
         ELSE SourceBlock(DEFAULT_SOURCE, <<"DATE">>))

\* the step in which generate_statistics returns to the chat handler of r
ChatGenerationEnds(r) ==
    /\ req[r].kind = "chat"
    /\ req[r].pc = "generating"
    /\ req'[r].pc \notin {"generating", "crashed"}

C5_NeverRaises ==
    \A r \in Slots :
        (req[r].kind = "chat" /\ req[r].outcome \in TransportFailures)
        => /\ ~req[r].result.raised
           /\ req[r].result.model = "error"
           /\ Contains(req[r].result.response, "unable")
           /\ req[r].result.response = APOLOGY
           /\ req[r].status # 500

\* generate_statistics returned the apology for an error status
C5_Witness ==
    \E r \in Slots :
        /\ req[r].kind = "chat"
        /\ req[r].outcome = "http_status"
        /\ req[r].pc = "add_asst"
        /\ req[r].result.model = "error"

StreamFailed(rq) ==
    rq.kind = "chat_stream" /\ rq.outcome \in TransportFailures

\* C6 as stated: when the exchange fails, before the first fragment or after
\* some, generate_statistics_stream yields one fragment in all, the apology.
C6_ExactlyOneFragment ==
    \A r \in Slots : StreamFailed(req[r]) => req[r].gen = <<APOLOGY>>

\* C6, amended: when the exchange fails, generate_statistics_stream yields
\* the apology once, after the fragments it had yielded (as the only fragment
\* when the failure comes before the first), then ends without yielding
\* more, and no exception reaches the consumer.
C6_ApologyLast ==
    /\ [](\A r \in Slots :
            StreamFailed(req[r])
            => /\ req[r].gen # <<>>
               /\ req[r].gen[Len(req[r].gen)] = APOLOGY
               /\ \A i \in 1..(Len(req[r].gen) - 1) : req[r].gen[i] \in Fragments
               /\ req[r].conn \in {"failed", "closed"}
               /\ req[r].detail # "generator raised"
               /\ req[r].outcome \in {"connect_error", "http_status"}
                     => req[r].gen = <<APOLOGY>>)
    /\ [][\A r \in Slots :
            /\ (req[r].kind = "chat_stream" /\ req[r].pc = "streaming"
                  /\ ~StreamFailed(req[r]) /\ StreamFailed(req'[r]))
               => req'[r].gen = Append(req[r].gen, APOLOGY)
            /\ (StreamFailed(req[r]) /\ InFlight(req[r]))
               => req'[r].gen = req[r].gen]_vars

\* the exchange failed after a fragment and the stream ended
C6_Witness ==
    \E r \in Slots :
        /\ StreamFailed(req[r])
        /\ req[r].conn = "closed"
        /\ Len(req[r].gen) = 2
        /\ req[r].gen[1] \in Fragments
        /\ req[r].gen[2] = APOLOGY

\* text ends with the source and date block
EndsWithSourceBlock(text) ==
    LET block == SourceBlock(DEFAULT_SOURCE, <<"DATE">>) IN
    /\ Len(text) >= Len(block)
    /\ SubSeq(text, Len(text) - Len(block) + 1, Len(text)) = block

\* text starts with the question marker followed by the message
StartsWithQuestion(text, message) ==
    LET header == QuestionHeader(message) IN
    /\ Len(text) >= Len(header)
    /\ SubSeq(text, 1, Len(header)) = header

\* C7: scenario A: a chat request sent to the application with the token of
\* a session of the creator of chat C, once answered, has status 200, a
\* response that starts with the question marker and the message and ends
\* with the Source line, and chat C holds two messages, user then assistant.
C7_ScenarioA ==
    \A r \in Slots :
        (/\ req[r].kind = "chat"
         /\ req[r].via = "app"
         /\ req[r].pc = "done"
         /\ req[r].message = <<"What is 2+2?">>
         /\ get_current_user(req[r].token).status = 200
         /\ verify_chat_access(req[r].chat_id,
                               get_current_user(req[r].token).user))
        => /\ req[r].status = 200
           /\ StartsWithQuestion(req[r].response, req[r].message)
           /\ EndsWithSourceBlock(req[r].response)
           /\ LET ms == format_for_ai(req[r].chat_id) IN
              /\ Len(ms) = 2
              /\ ms[1].role = "user"
              /\ ms[2].role = "assistant"

MirrorSteps == {"comp_create", "comp_user", "comp_asst"}

CompanionComplete(rq) ==
    /\ CreatedAndPresent(rq.chat_id, rq.user)
    /\ format_for_ai(rq.chat_id) =
         << [role |-> "user", content |-> rq.message],
            [role |-> "assistant", content |-> rq.response] >>

Created201(rq) ==
    rq.kind = "statistics" /\ rq.pc = "done" /\ rq.status = 201

C10_InclusiveExpiry ==
    [][\A r \in Slots :
         (Received(r)
            /\ \E s \in sessions : s.id = req'[r].token /\ now >= s.expires_at)
         => /\ req'[r].pc = "done"
            /\ req'[r].status = 401
            /\ req'[r].detail = "Token expired"
            /\ req'[r].user = 0]_vars

----------------------------------------------------------------------------
(* Sessions *)

\* the logout requests that delete_session answered True
LoggedOut(rq) == rq.kind = "logout" /\ rq.pc = "done" /\ rq.deleted

\* the answer of get_current_user to a token without a session row
InvalidToken(rq) ==
    /\ rq.pc = "done"
    /\ rq.status = 401
    /\ rq.detail = "Invalid token"
    /\ rq.user = 0

\* C11: a session is usable only while its row exists.  Once delete_session
\* has answered True for a token the row is gone and never comes back, and
\* every request that arrives with a token that has no row (deleted, or never
\* issued) is answered 401 "Invalid token" by get_current_user before any
\* step of the handler: the request is done on arrival and the database is
\* as it was.
C11_DeletedTokenRejected ==
    /\ [](\A r \in Slots :
            LoggedOut(req[r]) => SessionRows(req[r].token) = {})
    /\ [][\A t \in Tokens :
            (t <= sessionSeq /\ SessionRows(t) = {}) =>
                {s \in sessions' : s.id = t} = {}]_vars
    /\ [][\A r \in Slots :
            (/\ Received(r)
             /\ req'[r].kind = "create_chat"
             /\ SessionRows(req'[r].token) = {})
            => InvalidToken(req'[r]) /\ db' = db]_vars

\* a logout deleted the session of an issued token while another session
\* stays, and a request with the deleted token has been refused
C11_Witness ==
    /\ LoggedOut(req["r1"])
    /\ req["r1"].token <= sessionSeq
    /\ req["r2"].kind = "create_chat"
    /\ req["r2"].token = req["r1"].token
    /\ InvalidToken(req["r2"])
    /\ sessions # {}

\* a step of a logout request
LogoutStep(r, pc) ==
    /\ req[r].kind = "logout"
    /\ req[r].pc = pc
    /\ req'[r] # req[r]

\* C12: logout is idempotent.  delete_session looks the session up: when the
\* row is absent (never issued, or deleted by an earlier call) it answers
\* False, raises nothing and changes nothing; when it found the row it
\* answers True and the table loses that row and no other.  The endpoint
\* answers 200 in both cases.
C12_LogoutIdempotent ==
    /\ [][\A r \in Slots :
            LogoutStep(r, "get_session") =>
                /\ db' = db
                /\ IF SessionRows(req[r].token) = {}
                   THEN /\ req'[r].pc = "done"
                        /\ req'[r].status = 200
                        /\ ~req'[r].deleted
                   ELSE req'[r].pc = "delete_session"]_vars
    /\ [][\A r \in Slots :
            LogoutStep(r, "delete_session") =>
                /\ req'[r].pc = "done"
                /\ req'[r].status = 200
                /\ req'[r].deleted
                /\ sessions' = {s \in sessions : s.id # req[r].token}
                /\ <<users, chats, messages, stats>>' =
                       <<users, chats, messages, stats>>]_vars

\* the same session was logged out twice, one call after the other: True,
\* then False, while another session stays
C12_Witness ==
    /\ LoggedOut(req["r1"])
    /\ req["r2"].kind = "logout"
    /\ req["r2"].pc = "done"
    /\ req["r2"].token = req["r1"].token
    /\ ~req["r2"].deleted
    /\ req["r2"].status = 200
    /\ req["r2"].detail = "Logged out (session was already expired or not found)"
    /\ sessions # {}

----------------------------------------------------------------------------
(* Chat store *)

\* the committed rows of messages that belong to chat c
MessageIds(c) == {messages[i].id : i \in {j \in 1..Len(messages) :
                                            messages[j].chat_id = c}}

\* C13: delete_chat is atomic.  No committed state, and so nothing a
\* concurrent request can read, has a message whose chat row is gone; no step
\* removes messages of a chat and leaves the chat row, or removes the chat row
\* and leaves a message; and when delete_chat has completed (204 after the
\* commit) get_chat finds no chat and get_chat_messages is empty, from then
\* on.
C13_DeleteChatAtomic ==
    /\ [](\A i \in 1..Len(messages) : HasChat(messages[i].chat_id))
    /\ [][\A c \in ChatIds :
            \/ MessageIds(c) \subseteq
                   {messages'[i].id : i \in {j \in 1..Len(messages') :
                                                messages'[j].chat_id = c}}
               /\ (HasChat(c) => \E ch \in chats' : ch.id = c)
            \/ /\ \A ch \in chats' : ch.id # c
               /\ \A i \in 1..Len(messages') : messages'[i].chat_id # c]_vars
    /\ [](\A r \in Slots :
            (/\ req[r].kind = "delete_chat"
             /\ req[r].pc = "done"
             /\ req[r].status = 204)
            => ~HasChat(req[r].chat_id)
               /\ get_chat_messages(req[r].chat_id) = <<>>)

\* a delete_chat has removed a chat together with its messages while a chat
\* request of the other connection, which had passed its ownership check, was
\* about to save the assistant message; the insert was refused
C13_Witness ==
    /\ req["r1"].kind = "delete_chat"
    /\ req["r1"].pc = "done"
    /\ req["r1"].status = 204
    /\ req["r1"].seen > 0
    /\ req["r2"].kind = "chat"
    /\ req["r2"].chat_id = req["r1"].chat_id
    /\ req["r2"].user_msg > 0
    /\ req["r2"].pc = "done"
    /\ req["r2"].status = 500

\* the rows of chat c in the order in which add_message was called for them:
\* the serial gives each insert the next id
InCallOrder(c) ==
    CHOOSE s \in Orderings(MessageRows(c), [m \in MessageRows(c) |-> m.id]) :
        TRUE

\* a method or handler returns its listing
Lists(r, pc) == req[r].pc = pc /\ req'[r].pc = "done"

\* C14: what get_chat_messages returns is in non-decreasing created_at order
\* and is exactly the sequence of the chat's messages in the order add_message
\* was called, also when two messages have the same created_at.
C14_ListingInCallOrder ==
    [][\A r \in Slots :
        Lists(r, "list") =>
            /\ \A i, j \in 1..Len(req'[r].listing) :
                   i < j => req'[r].listing[i].created_at
                               <= req'[r].listing[j].created_at
            /\ req'[r].listing =
                   MessageResponses(InCallOrder(req[r].chat_id))]_vars

\* C15: for every chat updated_at >= created_at, and no step lowers the
\* stored updated_at of a chat, whatever the interleaving of the add_message
\* calls on it.
C15_UpdatedAtMonotonic ==
    /\ [](\A ch \in chats : ch.updated_at >= ch.created_at)
    /\ [][\A ch \in chats : \A after \in chats' :
            after.id = ch.id => after.updated_at >= ch.updated_at]_vars

\* C16: get_user_chats(u) returns exactly the chats of u, ordered by
\* updated_at descending; the commit of add_message writes the message and
\* the chat's updated_at together; and when add_message on a chat has
\* committed, that chat is the first entry of the user's list (of one that
\* the query may return, where chats tie on updated_at).
C16_AppendedChatFirst ==
    /\ [][\A r \in Slots :
            Lists(r, "list_chats") =>
                /\ {req'[r].listing[i].id : i \in 1..Len(req'[r].listing)} =
                       {ch.id : ch \in {x \in chats : x.user_id = req[r].user}}
                /\ \A i, j \in 1..Len(req'[r].listing) :
                       i < j => /\ req'[r].listing[i].id # req'[r].listing[j].id
                                /\ req'[r].listing[i].updated_at
                                      >= req'[r].listing[j].updated_at]_vars
    /\ [][\A r \in Slots :
            (/\ req[r].kind = "add_message"
             /\ req[r].pc = "commit"
             /\ req'[r].status = 200)
            => /\ Len(messages') = Len(messages) + 1
               /\ \E cs \in get_user_chats(req[r].user)' :
                      cs[1].id = req[r].chat_id]_vars

----------------------------------------------------------------------------
(* Registration *)

\* a register request is answered
Registers(r) == req[r].pc = "create_user" /\ req'[r].pc = "done"

\* C17: usernames are unique in every reachable state.  A registration with
\* a username that is in the table is answered 400 "Username already
\* exists", adds no user and leaves the table as it was; any other adds one
\* row with that username and is answered 201.  Of two registrations of one
\* username, overlapping or not, at most one is answered 201.
C17_UsernamesUnique ==
    /\ [](\A i, j \in 1..Len(users) :
            users[i].username = users[j].username => i = j)
    /\ [][\A r \in Slots :
            Registers(r) =>
                IF \E i \in 1..Len(users) : users[i].username = req[r].username
                THEN /\ req'[r].status = 400
                     /\ req'[r].detail = "Username already exists"
                     /\ users' = users
                ELSE /\ req'[r].status = 201
                     /\ Len(users') = Len(users) + 1
                     /\ SubSeq(users', 1, Len(users)) = users
                     /\ users'[Len(users')].username = req[r].username]_vars
    /\ [](\A r1, r2 \in Slots :
            (/\ r1 # r2
             /\ req[r1].kind = "register" /\ req[r2].kind = "register"
             /\ req[r1].username = req[r2].username
             /\ req[r1].status = 201)
            => req[r2].status # 201)

\* two registrations of one username with different passwords: one created
\* the user, the other was refused, and the user's password is the first one
C17_Witness ==
    /\ req["r1"].kind = "register" /\ req["r2"].kind = "register"
    /\ req["r1"].username = req["r2"].username
    /\ req["r1"].password # req["r2"].password
    /\ req["r1"].status = 201
    /\ req["r2"].status = 400
    /\ req["r2"].detail = "Username already exists"
    /\ users[req["r1"].user].password_hash = hash_password(req["r1"].password)
    /\ \E s \in sessions : s.user_id = req["r1"].user

----------------------------------------------------------------------------
(* Streaming: what is sent and what is saved *)

\* a streaming request whose fragment sequence ran to its end and that has
\* returned
StreamCompleted(rq) ==
    /\ rq.kind = "chat_stream"
    /\ rq.conn = "closed"
    /\ rq.pc = "done"

\* the positions of the assistant messages saved after the user message of
\* request rq
AssistantAfter(rq) ==
    {i \in 1..Len(messages) :
        /\ messages[i].chat_id = rq.chat_id
        /\ messages[i].role = "assistant"
        /\ messages[i].id > rq.user_msg}

\* C18: a streaming chat request whose fragment sequence ran to its end has
\* saved exactly one assistant message, whose content is the accumulated
\* buffer, and saved it after every fragment was sent: for every fragment
\* sequence, the empty one and the one of the apology alone included.
C18_OneAssistantMessage ==
    /\ \A r \in Slots :
          StreamCompleted(req[r]) =>
              /\ Cardinality(AssistantAfter(req[r])) = 1
              /\ \A i \in AssistantAfter(req[r]) :
                     messages[i].content = req[r].full_response
    /\ \A r \in Slots :
          (req[r].kind = "chat_stream" /\ req[r].pc = "streaming")
              => AssistantAfter(req[r]) = {}

\* the text of a sequence of fragments
RECURSIVE Flatten(_)
Flatten(chunks) ==
    IF chunks = <<>> THEN <<>> ELSE Head(chunks) \o Flatten(Tail(chunks))

\* the question marker is in the text the backend produced: the marker
\* anywhere, or "Question:" in its first 200 characters
AppearedNaturally(rq) ==
    \/ ContainsMarker(Flatten(rq.gen))
    \/ ContainsWithin(Flatten(rq.gen), "Question:", STREAM_QUESTION_WINDOW)

\* C19: in a streaming chat request the fragments sent are the fragments of
\* the backend, in order and once each, followed by the source and date
\* block if and only if the block was added to the buffer; the question
\* header is never sent; and the message saved is the question header (if
\* and only if the marker did not appear naturally) followed by everything
\* that was sent.
C19_StreamAsymmetry ==
    /\ [](\A r \in Slots :
            req[r].kind = "chat_stream" =>
                LET block == SourceBlock(DEFAULT_SOURCE, <<"DATE">>)
                    header == QuestionHeader(req[r].message)
                    text == Flatten(req[r].gen)
                    added == /\ req[r].pc \in {"stream_persist", "done", "crashed"}
                             /\ EndsWithSourceBlock(req[r].full_response)
                             /\ ~EndsWithSourceBlock(text)
                IN  /\ req[r].sent = IF added THEN Append(req[r].gen, block)
                                      ELSE req[r].gen
                    /\ \A i \in 1..Len(req[r].sent) : req[r].sent[i] # header)
    /\ [][\A r \in Slots :
            (req[r].pc = "stream_persist" /\ Len(messages') = Len(messages) + 1)
            => /\ messages'[Len(messages')].role = "assistant"
               /\ messages'[Len(messages')].content =
                      (IF AppearedNaturally(req[r]) THEN <<>>
                       ELSE QuestionHeader(req[r].message))
                      \o Flatten(req[r].sent)]_vars

\* a stream of two fragments without marker and without source has been
\* saved: the client got the fragments and the block, the chat the header too
C19_Witness ==
    /\ StreamCompleted(req["r1"])
    /\ Len(req["r1"].gen) = 2
    /\ Len(req["r1"].sent) = 3
    /\ ~AppearedNaturally(req["r1"])
    /\ \E i \in AssistantAfter(req["r1"]) :
          /\ StartsWithQuestion(messages[i].content, req["r1"].message)
          /\ EndsWithSourceBlock(messages[i].content)

\* C20: chat appends the source and date block if and only if the text the
\* backend returned does not mention "source:" (in any case), whatever the
\* user's message, also when the message holds "source:" and is copied into
\* the question header; chat_stream applies the same rule to the accumulated
\* fragments.
C20_SourceBlockRule ==
    /\ [][\A r \in Slots :
            (/\ req[r].kind = "chat"
             /\ req[r].pc = "generating"
             /\ req'[r].pc = "add_asst")
            => (EndsWithSourceBlock(req'[r].response)
                   <=> ~Contains(Lower(req'[r].result.response), "source:"))]_vars
    /\ [][\A r \in Slots :
            (/\ req[r].kind = "chat_stream"
             /\ req[r].pc = "streaming"
             /\ req'[r].pc = "stream_persist")
            => (/\ EndsWithSourceBlock(req'[r].full_response)
                /\ req'[r].sent # req[r].sent)
                   <=> ~Contains(Lower(Flatten(req[r].gen)), "source:")]_vars

----------------------------------------------------------------------------
(* The backend *)

\* the requests that generate
Generates == {"chat", "chat_stream", "statistics"}

\* C21: a chat request, streaming or not, and a statistics request send at
\* most one exchange to the backend, whether it succeeds or fails: no step
\* sends an exchange for a request that has sent one, and a request whose
\* exchange failed ends with that one call.
C21_SingleAttempt ==
    /\ [](\A r \in Slots :
            req[r].kind \in Generates => req[r].calls <= 1)
    /\ [][\A r \in Slots :
            (req[r].kind \in Generates /\ req[r].calls = 1 /\ InFlight(req[r]))
            => req'[r].calls = 1]_vars
    /\ [](\A r \in Slots :
            (/\ req[r].kind \in Generates
             /\ req[r].outcome \in TransportFailures
             /\ req[r].pc = "done")
            => req[r].calls = 1)

\* each kind of request that generates can end after a failed exchange with
\* its one call made: here a statistics request answered with the apology
C21_Witness ==
    /\ req["r1"].kind = "statistics"
    /\ req["r1"].pc = "done"
    /\ req["r1"].outcome \in TransportFailures
    /\ req["r1"].calls = 1
    /\ req["r1"].status = 201
    /\ \E i \in 1..Len(stats) : stats[i].response = APOLOGY

\* the histories get_chat_messages may return for chat c, in the {role,
\* content} shape: the chat's rows, oldest first by created_at
Histories(c) == {FormatRows(ms) : ms \in MessageListings(c)}

\* request r sends its exchange to the backend
Sends(r) ==
    /\ req[r].kind \in {"chat", "chat_stream"}
    /\ req'[r].calls = req[r].calls + 1

\* the user turns of a context that are built from text
TurnsOf(context, text) ==
    {i \in 1..Len(context) :
        /\ context[i].role = "user"
        /\ context[i].content # text
        /\ \E k \in 1..(Len(context[i].content) - Len(text) + 1) :
              SubSeq(context[i].content, k, k + Len(text) - 1) = text
        /\ context[i].content[1] = "PROMPT_HEAD"}

PastCheck(rq) ==
    /\ rq.kind \in {"chat", "chat_stream"}
    /\ rq.pc \notin {"idle", "check"}
    /\ ~(rq.pc = "done" /\ rq.status = 404)

\* C23: a message cannot outlive its chat.  In every reachable state the
\* chat_id of every stored message is the id of a stored chat, also when the
\* chat is deleted while a chat request on it has passed its ownership check
\* and still has its user message or its assistant message to append; such
\* a request appends nothing once the chat is gone.
C23_NoOrphanMessage ==
    /\ [](\A i \in 1..Len(messages) : HasChat(messages[i].chat_id))
    /\ [][\A r \in Slots :
            (PastCheck(req[r]) /\ ~HasChat(req[r].chat_id))
                => \A i \in 1..Len(messages') :
                      messages'[i].chat_id # req[r].chat_id]_vars

\* the chat was deleted while a streaming request on it was sending its
\* fragments: the request had saved its user message, and at the end of the
\* stream its assistant message was refused
C23_Witness ==
    \E r \in Slots, d \in Slots :
        /\ req[d].kind = "delete_chat"
        /\ req[d].pc = "done"
        /\ req[d].status = 204
        /\ req[d].seen > 0
        /\ req[r].kind = "chat_stream"
        /\ req[r].chat_id = req[d].chat_id
        /\ req[r].user_msg > 0
        /\ req[r].full_response # <<>>
        /\ req[r].pc = "done"
        /\ req[r].detail = "stream aborted"
        /\ ~HasChat(req[r].chat_id)
        /\ messages = <<>>

\* the rows of chat c with the given role
RowsOf(c, role) ==
    {i \in 1..Len(messages) :
        messages[i].chat_id = c /\ messages[i].role = role}

\* the non-streaming requests on chat c that have saved their user message
\* and not yet their assistant message
Halfway(c) ==
    {r \in Slots : /\ req[r].kind = "chat"
                   /\ req[r].chat_id = c
                   /\ InFlight(req[r])
                   /\ req[r].user_msg > 0}

\* request r completes: its assistant message is saved and it answers 200
Completes(r) ==
    /\ req[r].kind = "chat"
    /\ req[r].pc = "add_asst"
    /\ req'[r].pc = "done"
    /\ req'[r].status = 200

\* the position of the row with serial id in the listing ms
PositionOf(ms, id) == CHOOSE i \in 1..Len(ms) : ms[i].id = id

Disconnected(rq) == rq.kind = "chat_stream" /\ rq.conn = "gone"

\* C25: when the client of a streaming chat request disconnects before the
\* fragments have ended, no assistant message is saved for that request.  The
\* step of the disconnection writes nothing, the buffered text is never saved
\* afterwards because the request takes no further step, the user message it
\* saved stays, and the chat is left with that user message as its last row.
C25_DisconnectDiscards ==
    /\ [][\A r \in Slots :
            (Disconnected(req'[r]) /\ ~Disconnected(req[r]))
                => /\ req[r].pc = "streaming"
                   /\ req[r].user_msg > 0
                   /\ <<messages, chats, msgSeq>>' = <<messages, chats, msgSeq>>
         ]_vars
    /\ [][\A r \in Slots :
            Disconnected(req[r])
                => \/ req'[r] = req[r] /\ messages' = messages
                   \/ Received(r)]_vars
    /\ [](\A r \in Slots :
            Disconnected(req[r])
                => LET ms == get_chat_messages(req[r].chat_id) IN
                   /\ ~InFlight(req[r])
                   /\ ms # <<>>
                   /\ ms[Len(ms)].id = req[r].user_msg
                   /\ ms[Len(ms)].role = "user"
                   /\ ms[Len(ms)].content = req[r].message
                   /\ \A i \in 1..Len(ms) :
                         ms[i].id > req[r].user_msg => ms[i].role # "assistant")

\* the client went away after two fragments had been sent: the buffer holds
\* them, and the chat holds the user message alone
C25_Witness ==
    \E r \in Slots :
        /\ Disconnected(req[r])
        /\ Len(req[r].sent) = 2
        /\ req[r].full_response # <<>>
        /\ Len(messages) = 1
        /\ messages[1].role = "user"
        /\ messages[1].id = req[r].user_msg

====
